---- MODULE Spec2Model ----
(***************************************************************************)
(* Model of word_cloud.py: the news collector (collect_news_articles), the *)
(* renderer (generate_wordcloud) and the __main__ sequence that calls them. *)
(* The network, the YAML file, the mask images and the rendering library   *)
(* are the environment: each of their calls either returns or raises, and  *)
(* the choice is made by \E in the action that models the call.            *)
(***************************************************************************)
EXTENDS Integers, Sequences, FiniteSets, TLC

VARIABLES
    pc,         \* position of the single control thread
    today,      \* the run date, <<year, month, day>>
    feed_file,  \* what yaml.safe_load returned
    fi,         \* number of feeds the feed loop has gone through
    articles,   \* the flat accumulator of article URLs
    fetchLog,   \* history: one entry per requests.get issued
    ai,         \* number of article URLs the article loop has gone through
    artLog,     \* history: one entry per Article(url) attempted
    data,       \* rows [url, keywords, text] collected so far
    df,         \* the DataFrame returned by collect_news_articles
    csv,        \* the archival file on disk, or NoFile
    stopwords,  \* the stopword set built by __main__
    text,       \* the keyword text built by __main__
    k,          \* number of generate_wordcloud calls issued by __main__
    call,       \* arguments of the current generate_wordcloud call
    calls,      \* history: the generate_wordcloud calls issued
    artifacts,  \* the PNG files written, in order
    raisedAt    \* where an uncaught exception left the run, or "none"

vars == <<pc, today, feed_file, fi, articles, fetchLog, ai, artLog, data, df,
          csv, stopwords, text, k, call, calls, artifacts, raisedAt>>

collectVars == <<feed_file, fi, articles, fetchLog, ai, artLog, data>>
mainVars == <<stopwords, text, k, calls>>

-----------------------------------------------------------------------------
(* Bounds *)

MaxFeeds == 2      \* feeds listed in the config
MaxItems == 2      \* items in one feed document
MaxArticles == 3   \* links all the feeds of a run yield together

-----------------------------------------------------------------------------
(* Values *)

None == "None"
NoCall == [output_prefix |-> "", stopwords |-> {}, mask_image |-> None,
           colormap |-> None, recolor_from_mask |-> FALSE, text |-> ""]
NoFile == [name |-> "", header |-> <<>>, rows |-> <<>>]
NoDataFrame == [columns |-> <<>>, rows |-> <<>>]

FeedURLs == {"feedA", "feedB"}
ArticleURLs == {"u1", "u2"}
Dates == {<<2024, 1, 5>>, <<2025, 12, 31>>}

RECURSIVE SeqsUpTo(_, _)
SeqsUpTo(S, n) ==
    IF n = 0 THEN {<<>>}
    ELSE LET shorter == SeqsUpTo(S, n - 1)
         IN  shorter \cup {Append(s, x) : s \in {t \in shorter : Len(t) = n - 1}, x \in S}

(* The documents yaml.safe_load can return: a mapping with or without the  *)
(* 'feeds' key, or None for an empty document.                             *)
Mappings ==
    {[title |-> "news"]} \cup
    {[title |-> "news", feeds |-> fs] : fs \in SeqsUpTo(FeedURLs, MaxFeeds)}
Documents ==
    {[kind |-> "null", map |-> <<>>]} \cup
    {[kind |-> "map", map |-> m] : m \in Mappings}

(* An <item> of a feed: its <link> tag may be missing, and its text empty. *)
Items ==
    {[hasLink |-> FALSE, text |-> ""], [hasLink |-> TRUE, text |-> ""]} \cup
    {[hasLink |-> TRUE, text |-> u] : u \in ArticleURLs}

(* What newspaper3k extracts from a page, by URL. *)
Keywords(url) == IF url = "u1" THEN <<"state", "vote">> ELSE <<>>
ArticleText(url) == IF url = "u1" THEN "body" ELSE ""

STOPWORDS == {"the", "and"}
ExtraStopwords == {"globalnews", "guardian", "abc", "nbc", "cbs", "nytimes", "state"}

-----------------------------------------------------------------------------
(* Pure helpers *)

Pad2(n) == IF n < 10 THEN "0" \o ToString(n) ELSE ToString(n)

(* today.strftime("%m_%d_%y") *)
strftime(d) == Pad2(d[2]) \o "_" \o Pad2(d[3]) \o "_" \o Pad2(d[1] % 100)

GetDefaultFeed(m, key, default) == IF key \in DOMAIN m THEN m[key] ELSE <<"feedA">>

(* dict.get(key, default) *)
Get(m, key, default) == IF key \in DOMAIN m THEN m[key] ELSE default

Feeds == Get(feed_file.map, "feeds", <<>>)

TruthyTag(item) == item.hasLink

(* The test of line 139: link_tag and link_tag.text *)
Truthy(item) == item.hasLink /\ item.text # ""

(* The inner loop of lines 137-140 over the items it gets through. *)
RECURSIVE ExtractLinks(_)
ExtractLinks(items) ==
    IF items = <<>> THEN <<>>
    ELSE LET rest == ExtractLinks(Tail(items))
         IN  IF Truthy(Head(items)) THEN <<Head(items).text>> \o rest ELSE rest

(* The link fields a feed document lists, item by item. *)
RECURSIVE LinkFields(_)
LinkFields(items) ==
    IF items = <<>> THEN <<>>
    ELSE IF Head(items).hasLink /\ Head(items).text # ""
         THEN <<Head(items).text>> \o LinkFields(Tail(items))
         ELSE LinkFields(Tail(items))

(* [j for i in df.Keywords for j in i] *)
RECURSIVE Flatten(_)
Flatten(rows) ==
    IF rows = <<>> THEN <<>> ELSE Head(rows).keywords \o Flatten(Tail(rows))

(* ' '.join(words) *)
RECURSIVE Join(_)
Join(words) ==
    IF words = <<>> THEN ""
    ELSE IF Len(words) = 1 THEN Head(words)
    ELSE Head(words) \o " " \o Join(Tail(words))

-----------------------------------------------------------------------------
(* collect_news_articles *)

Init ==
    /\ pc = "load"
    /\ today \in Dates
    /\ feed_file \in Documents
    /\ fi = 0
    /\ articles = <<>>
    /\ fetchLog = <<>>
    /\ ai = 0
    /\ artLog = <<>>
    /\ data = <<>>
    /\ df = NoDataFrame
    /\ csv = NoFile
    /\ stopwords = {}
    /\ text = ""
    /\ k = 0
    /\ call = NoCall
    /\ calls = <<>>
    /\ artifacts = <<>>
    /\ raisedAt = "none"

(* Lines 127-131: the document is loaded and .get("feeds", []) is called   *)
(* on it; None has no .get, and the AttributeError is not caught.          *)
LoadConfig ==
    /\ pc = "load"
    /\ IF feed_file.kind = "map"
       THEN /\ pc' = "feeds"
            /\ raisedAt' = raisedAt
       ELSE /\ pc' = "raised"
            /\ raisedAt' = "config"
    /\ UNCHANGED <<today, feed_file, fi, articles, fetchLog, ai, artLog, data,
                   df, csv, stopwords, text, k, call, calls, artifacts>>

(* The links one iteration of the feed loop appends: the links of the      *)
(* items it got through before an exception, if any, ended the iteration.  *)
Appended(items, upTo) == ExtractLinks(SubSeq(items, 1, upTo))

NextFeedRetry(i, ok) == IF ok THEN i + 1 ELSE i

(* Lines 131 and 142-144: "continue" goes on to the next feed of the list, *)
(* as the end of the try body does.                                        *)
NextFeed(i, ok) == i + 1

(* Lines 131-144, one iteration: requests.get raises, or the response is   *)
(* parsed into items and the items are gone through until the end or until *)
(* one of them raises; the except clause goes on to the next feed.         *)
FetchFeed ==
    /\ pc = "feeds"
    /\ fi < Len(Feeds)
    /\ \E fetched \in BOOLEAN, items \in SeqsUpTo(Items, MaxItems) :
         \E upTo \in 0..Len(items) :
            /\ ~fetched => (items = <<>>)
            /\ Len(articles) + Len(Appended(items, upTo)) <= MaxArticles
            /\ articles' = articles \o Appended(items, upTo)
            /\ fetchLog' = Append(fetchLog,
                  [feed  |-> Feeds[fi + 1],
                   ok    |-> fetched /\ upTo = Len(items),
                   links |-> IF fetched /\ upTo = Len(items)
                             THEN LinkFields(items) ELSE <<>>])
    /\ fi' = NextFeed(fi, fetchLog'[Len(fetchLog')].ok)
    /\ UNCHANGED <<pc, today, feed_file, ai, artLog, data, df, csv, stopwords,
                   text, k, call, calls, artifacts, raisedAt>>

(* Line 146: the feed loop is exhausted. *)
FeedsDone ==
    /\ pc = "feeds"
    /\ fi = Len(Feeds)
    /\ pc' = "articles"
    /\ data' = <<>>
    /\ UNCHANGED <<today, feed_file, fi, articles, fetchLog, ai, artLog, df,
                   csv, stopwords, text, k, call, calls, artifacts, raisedAt>>

Stages == {"download", "parse", "nlp"}

(* The row of lines 156-160. *)
Row(url) == [url |-> url, keywords |-> Keywords(url), text |-> ArticleText(url)]

CollectedPartial(rows, url, failed) ==
    IF failed \in {"none", "nlp"} THEN Append(rows, Row(url)) ELSE rows

(* What one iteration of the article loop leaves in data: the row is built *)
(* after the three stages, so a stage that raises leaves nothing.          *)
Collected(rows, url, failed) ==
    IF failed = "none" THEN Append(rows, Row(url)) ELSE rows

(* Lines 149-164, one iteration. *)
ProcessArticle ==
    /\ pc = "articles"
    /\ ai < Len(articles)
    /\ \E failed \in Stages \cup {"none"} :
         /\ data' = Collected(data, articles[ai + 1], failed)
         /\ artLog' = Append(artLog, [url |-> articles[ai + 1], ok |-> failed = "none"])
    /\ ai' = ai + 1
    /\ UNCHANGED <<pc, today, feed_file, fi, articles, fetchLog, df, csv,
                   stopwords, text, k, call, calls, artifacts, raisedAt>>

output_csv == TRUE

ToCsvNonEmpty(frame, write) ==
    IF write /\ frame.rows # <<>>
    THEN [name |-> strftime(today) \o "_news.csv",
          header |-> frame.columns,
          rows |-> frame.rows]
    ELSE NoFile

(* Lines 170-172: to_csv writes the header line and one line per row. *)
ToCsv(frame, write) ==
    IF write
    THEN [name |-> strftime(today) \o "_news.csv",
          header |-> frame.columns,
          rows |-> frame.rows]
    ELSE NoFile

(* Lines 166-174. *)
BuildDataset ==
    /\ pc = "articles"
    /\ ai = Len(articles)
    /\ df' = [columns |-> <<"URL", "Keywords", "Text">>, rows |-> data]
    /\ csv' = ToCsv(df', output_csv)
    /\ pc' = "returned"
    /\ UNCHANGED <<today, feed_file, fi, articles, fetchLog, ai, artLog, data,
                   stopwords, text, k, call, calls, artifacts, raisedAt>>

-----------------------------------------------------------------------------
(* generate_wordcloud *)

ImageColorsNoMask(c) == c.recolor_from_mask

(* Lines 209-212: image_colors is set only inside "if mask_image:". *)
ImageColors(c) == c.mask_image # None /\ c.recolor_from_mask

(* Lines 205-218 up to the rendering: where the call raises, given what    *)
(* the environment does to Image.open, ImageColorGenerator and generate.   *)
RaisesAt(c, canOpen, canColor, canGenerate) ==
    IF c.mask_image # None /\ ~canOpen THEN "mask"
    ELSE IF ImageColors(c) /\ ~canColor THEN "colors"
    ELSE IF ~canGenerate THEN "generate"
    ELSE "none"

(* Lines 219-226: the file savefig writes. *)
Artifact(c) ==
    [name      |-> c.output_prefix \o "_" \o strftime(today) \o ".png",
     stopwords |-> c.stopwords,
     mask      |-> c.mask_image,
     recolored |-> ImageColors(c),
     text      |-> c.text]

(* Lines 205-226: one call; an exception leaves through the caller. *)
GenerateWordcloud ==
    /\ pc = "gw"
    /\ \E canOpen \in BOOLEAN, canColor \in BOOLEAN, canGenerate \in BOOLEAN :
         LET at == RaisesAt(call, canOpen, canColor, canGenerate)
         IN  IF at = "none"
             THEN /\ artifacts' = Append(artifacts, Artifact(call))
                  /\ pc' = "ret"
                  /\ raisedAt' = raisedAt
             ELSE /\ artifacts' = artifacts
                  /\ pc' = "raised"
                  /\ raisedAt' = at
    /\ UNCHANGED <<today, df, csv, call>>
    /\ UNCHANGED collectVars
    /\ UNCHANGED mainVars

-----------------------------------------------------------------------------
(* __main__ *)

NumPresets == 4

(* Line 239-240 *)
Augmented == STOPWORDS \cup ExtraStopwords

(* Lines 248-260: the four calls. *)
Presets(sw, txt) ==
    << [output_prefix |-> "original_wordcloud", stopwords |-> sw,
        mask_image |-> None, colormap |-> None,
        recolor_from_mask |-> FALSE, text |-> txt],
       [output_prefix |-> "us_flag_wordcloud", stopwords |-> sw,
        mask_image |-> "Flag.jpg", colormap |-> None,
        recolor_from_mask |-> TRUE, text |-> txt],
       [output_prefix |-> "tree_wordcloud", stopwords |-> sw,
        mask_image |-> "Tree.jpg", colormap |-> None,
        recolor_from_mask |-> TRUE, text |-> txt],
       [output_prefix |-> "wordcloud", stopwords |-> STOPWORDS,
        mask_image |-> "comment.png", colormap |-> "rainbow",
        recolor_from_mask |-> FALSE, text |-> txt] >>

(* Lines 236-244: collect_news_articles has returned df; its locals are    *)
(* gone with its frame.                                                    *)
MainPrepare ==
    /\ pc = "returned"
    /\ stopwords' = Augmented
    /\ text' = Join(Flatten(df.rows))
    /\ pc' = "main"
    /\ fi' = 0
    /\ articles' = <<>>
    /\ fetchLog' = <<>>
    /\ ai' = 0
    /\ artLog' = <<>>
    /\ data' = <<>>
    /\ UNCHANGED <<today, feed_file, df, csv, k, call, calls, artifacts, raisedAt>>

MainCallIsolated ==
    /\ pc \in {"main", "ret", "raised"}
    /\ raisedAt # "config"
    /\ k < NumPresets
    /\ k' = k + 1
    /\ call' = Presets(stopwords, text)[k + 1]
    /\ calls' = Append(calls, call')
    /\ pc' = "gw"
    /\ UNCHANGED <<today, df, csv, stopwords, text, artifacts, raisedAt>>
    /\ UNCHANGED collectVars

(* Lines 248-260: the next call is issued when the previous one returned;  *)
(* there is no try around any of them.                                     *)
MainCall ==
    /\ pc \in {"main", "ret"}
    /\ k < NumPresets
    /\ k' = k + 1
    /\ call' = Presets(stopwords, text)[k + 1]
    /\ calls' = Append(calls, call')
    /\ pc' = "gw"
    /\ UNCHANGED <<today, df, csv, stopwords, text, artifacts, raisedAt>>
    /\ UNCHANGED collectVars

(* End of the script. *)
MainDone ==
    /\ pc = "ret"
    /\ k = NumPresets
    /\ pc' = "done"
    /\ UNCHANGED <<today, df, csv, call, artifacts, raisedAt>>
    /\ UNCHANGED collectVars
    /\ UNCHANGED mainVars

Next ==
    \/ LoadConfig
    \/ FetchFeed
    \/ FeedsDone
    \/ ProcessArticle
    \/ BuildDataset
    \/ MainPrepare
    \/ MainCall
    \/ GenerateWordcloud
    \/ MainDone

Spec == Init /\ [][Next]_vars

-----------------------------------------------------------------------------
(* generate_wordcloud called on its own, with arguments of any shape.      *)

Texts == {"", "state vote"}

Calls ==
    [output_prefix : {"original_wordcloud", "wordcloud"},
     stopwords : {STOPWORDS, Augmented},
     mask_image : {None, "Flag.jpg"},
     colormap : {None, "rainbow"},
     recolor_from_mask : BOOLEAN,
     text : Texts]

InitRender ==
    /\ pc = "gw"
    /\ today \in Dates
    /\ feed_file = [kind |-> "null", map |-> <<>>]
    /\ fi = 0
    /\ articles = <<>>
    /\ fetchLog = <<>>
    /\ ai = 0
    /\ artLog = <<>>
    /\ data = <<>>
    /\ df = NoDataFrame
    /\ csv = NoFile
    /\ stopwords = {}
    /\ text = ""
    /\ k = 0
    /\ call \in Calls
    /\ calls = <<call>>
    /\ artifacts = <<>>
    /\ raisedAt = "none"

NextRender == GenerateWordcloud

SpecRender == InitRender /\ [][NextRender]_vars

-----------------------------------------------------------------------------
(* Properties *)

InCollector == pc \in {"feeds", "articles", "returned"}
RenderRaised == pc = "raised" /\ raisedAt \in {"mask", "colors", "generate"}

RECURSIVE ConcatLinks(_)
ConcatLinks(log) ==
    IF log = <<>> THEN <<>>
    ELSE (IF Head(log).ok THEN Head(log).links ELSE <<>>) \o ConcatLinks(Tail(log))

RECURSIVE SucceededRows(_)
SucceededRows(log) ==
    IF log = <<>> THEN <<>>
    ELSE (IF Head(log).ok
          THEN <<[url |-> Head(log).url, keywords |-> Keywords(Head(log).url),
                  text |-> ArticleText(Head(log).url)]>>
          ELSE <<>>) \o SucceededRows(Tail(log))

(* C1: a feed whose fetch or item extraction fails adds nothing to the     *)
(* accumulator, not even the links extracted before the failure; nothing   *)
(* propagates out of the collector and the feed loop goes on.              *)
C1_FailedFeedAddsNothing ==
    [][(Len(fetchLog') = Len(fetchLog) + 1 /\ ~fetchLog'[Len(fetchLog')].ok)
          => (articles' = articles /\ pc' = "feeds" /\ raisedAt' = "none")]_vars

(* C2: with N feeds in the config, exactly N fetches are issued, one per   *)
(* feed in list order, whatever the outcomes: no retry of a failed feed,   *)
(* no stop after one.                                                      *)
C2_OneFetchPerFeed ==
    InCollector =>
        /\ Len(fetchLog) = fi
        /\ fi <= Len(Feeds)
        /\ \A i \in 1..Len(fetchLog) : fetchLog[i].feed = Feeds[i]
        /\ pc \in {"articles", "returned"} => Len(fetchLog) = Len(Feeds)

C2_Witness ==
    /\ pc = "articles"
    /\ Len(Feeds) = 2
    /\ Len(fetchLog) = 2
    /\ ~fetchLog[1].ok
    /\ fetchLog[2].ok

(* C3: the dataset has exactly one row per article URL that passed         *)
(* download, parse and keyword extraction, in fetch order; a URL that      *)
(* fails a stage leaves no row, each URL is attempted once and a failure   *)
(* does not stop the later URLs.                                           *)
C3_RowsAreSucceededArticles ==
    /\ pc = "articles" =>
          /\ data = SucceededRows(artLog)
          /\ Len(artLog) = ai
          /\ \A i \in 1..Len(artLog) : artLog[i].url = articles[i]
    /\ pc = "returned" =>
          /\ df.rows = SucceededRows(artLog)
          /\ Len(artLog) = Len(articles)
          /\ \A i \in 1..Len(artLog) : artLog[i].url = articles[i]

C3_Witness ==
    /\ pc = "returned"
    /\ Len(artLog) = 3
    /\ ~artLog[1].ok
    /\ artLog[2].ok
    /\ artLog[3].ok
    /\ Len(df.rows) = 2
    /\ df.rows[1].url = "u2"
    /\ df.rows[2].url = "u1"

(* C4: the accumulator is the concatenation, feed by feed in list order,   *)
(* of the link fields of the items of each successfully fetched feed, one  *)
(* entry per occurrence.                                                   *)
C4_AccumulatorIsConcatenation ==
    InCollector => articles = ConcatLinks(fetchLog)

(* C5: when a preset raises, no later preset is invoked and no artifact is *)
(* written for it or a later one; the CSV and the artifacts of the earlier *)
(* presets stay.                                                           *)
C5_RaiseAbortsLaterPresets ==
    /\ [](RenderRaised =>
            /\ Len(calls) = k
            /\ Len(artifacts) = k - 1
            /\ \A i \in 1..(k - 1) :
                  artifacts[i].name =
                     calls[i].output_prefix \o "_" \o strftime(today) \o ".png"
            /\ csv.name = strftime(today) \o "_news.csv"
            /\ csv.rows = df.rows)
    /\ [][RenderRaised => (calls' = calls /\ artifacts' = artifacts /\ csv' = csv)]_vars

C5_Witness ==
    /\ pc = "raised"
    /\ raisedAt = "mask"
    /\ k = 3
    /\ Len(artifacts) = 2
    /\ artifacts[2].name = "us_flag_wordcloud_01_05_24.png"
    /\ csv.name = "01_05_24_news.csv"

RecolorWithoutMask == call.recolor_from_mask /\ call.mask_image = None /\ pc # "gw"

(* C6 as stated: recolor_from_mask without a mask image ends the call in   *)
(* an error before rendering, and nothing is saved.                        *)
C6_RecolorWithoutMaskIsError ==
    RecolorWithoutMask => (pc = "raised" /\ artifacts = <<>>)

(* C6 amended: recolor_from_mask without a mask image is ignored: it       *)
(* raises nothing, and the cloud, when generate succeeds, is saved without *)
(* recolouring; the call fails only when generate itself raises.           *)
C6_RecolorWithoutMaskIsIgnored ==
    RecolorWithoutMask =>
        \/ /\ pc = "ret"
           /\ Len(artifacts) = 1
           /\ ~artifacts[1].recolored
           /\ artifacts[1].mask = None
        \/ /\ pc = "raised"
           /\ raisedAt = "generate"
           /\ artifacts = <<>>

C6_Witness ==
    /\ RecolorWithoutMask
    /\ pc = "ret"
    /\ Len(artifacts) = 1
    /\ artifacts[1].name = "wordcloud_12_31_25.png"

NoFeedsKey == "feeds" \notin DOMAIN feed_file.map

NoFeedsOutcome ==
    /\ raisedAt # "config"
    /\ fetchLog = <<>>
    /\ artLog = <<>>
    /\ articles = <<>>
    /\ pc \notin {"load", "feeds", "articles"} => df.rows = <<>> /\ df.columns # <<>>

(* C7 as stated: a parsed config document without the 'feeds' key gives no *)
(* feeds and no error: no feed fetch, no article fetch, an empty dataset.  *)
C7_NoFeedsKeyNoError ==
    NoFeedsKey => (pc # "load" => NoFeedsOutcome)

(* C7 amended: a parsed config document that is a mapping without the      *)
(* 'feeds' key gives no feeds and no error: no feed fetch, no article      *)
(* fetch, an empty dataset.                                                *)
C7_MappingWithoutFeedsKey ==
    (feed_file.kind = "map" /\ NoFeedsKey) => (pc # "load" => NoFeedsOutcome)

C7_Witness ==
    /\ feed_file.kind = "map"
    /\ NoFeedsKey
    /\ pc = "returned"
    /\ df.rows = <<>>

(* C8: every record of the dataset has a non-empty source URL and belongs  *)
(* to a URL whose download, parse and keyword extraction all succeeded.    *)
C8_RecordsHaveUrlAndSucceeded ==
    /\ \A i \in 1..Len(data) : data[i].url # ""
    /\ \A i \in 1..Len(df.rows) : df.rows[i].url # ""
    /\ \A i \in 1..Len(csv.rows) : csv.rows[i].url # ""
    /\ pc = "articles" =>
          \A i \in 1..Len(data) :
             \E j \in 1..Len(artLog) : artLog[j].ok /\ artLog[j].url = data[i].url
    /\ pc = "returned" =>
          \A i \in 1..Len(df.rows) :
             \E j \in 1..Len(artLog) : artLog[j].ok /\ artLog[j].url = df.rows[i].url

C8_Witness ==
    /\ pc = "returned"
    /\ Len(df.rows) = 2
    /\ df.rows[1].keywords = <<>>
    /\ df.rows[1].text = ""
    /\ df.rows[2].keywords # <<>>
    /\ \E j \in 1..Len(artLog) : ~artLog[j].ok

(* C9: when every feed or every article failed, the dated archival file    *)
(* is still written, with the header URL, Keywords, Text and no data row,  *)
(* and the empty dataset is returned without an error.                     *)
C9_EmptyDatasetStillWritten ==
    (pc = "returned" /\ df.rows = <<>>) =>
        /\ csv.name = strftime(today) \o "_news.csv"
        /\ csv.header = <<"URL", "Keywords", "Text">>
        /\ csv.rows = <<>>
        /\ df.columns = <<"URL", "Keywords", "Text">>
        /\ raisedAt = "none"

C9_Witness ==
    /\ pc = "returned"
    /\ df.rows = <<>>
    /\ Len(artLog) = 2
    /\ today = <<2024, 1, 5>>
    /\ csv.name = "01_05_24_news.csv"
    /\ csv.header = <<"URL", "Keywords", "Text">>

(* C10: each of the four renderer invocations of a run is passed the       *)
(* default stopword set plus the additional excluded terms.                *)
C10_AllCallsGetAugmentedStopwords ==
    \A i \in 1..Len(calls) : calls[i].stopwords = STOPWORDS \cup ExtraStopwords

====
